---- MODULE Spec2Model ----
(***************************************************************************)
(* Model of the UDP ingestion server of Vibration-Monitor-GUI              *)
(* (src/gui_server.py: SensorData, UDPServer) together with the GUI        *)
(* handlers that drive it (src/vibration_monitor_gui.py).                  *)
(*                                                                         *)
(* Text is modelled at the level of lexemes: a message is a sequence of    *)
(* lexemes, where a lexeme is a comma, a white-space character, or an      *)
(* indivisible run of other characters ("100", "nan", "S1", ...).  The     *)
(* inputs never put two runs side by side, so strip, split and the         *)
(* conversions act on lexemes exactly as Python acts on the characters.    *)
(*                                                                         *)
(* A Python float is an integer here; +inf, -inf and nan are the three     *)
(* values PosInf, NegInf and NaN, with IEEE comparison and addition.       *)
(***************************************************************************)
EXTENDS Integers, Sequences, FiniteSets, TLC

-----------------------------------------------------------------------------
(* Bounds of the model *)

\* datagrams (and time-outs) the socket delivers in one run
MaxDatagrams == 3
\* largest history capacity a server is constructed with
MaxCap == 2

-----------------------------------------------------------------------------
(* Floats *)

\* float('inf'); every finite value of the model is far below it
PosInf == 1000000
NegInf == -PosInf
NaN == PosInf + 1

IsNaN(x) == x = NaN
IsFinite(x) == x # NaN /\ x # PosInf /\ x # NegInf

\* x < y and x > y on floats: False whenever a nan is involved
FLt(x, y) == ~IsNaN(x) /\ ~IsNaN(y) /\ x < y
FGt(x, y) == FLt(y, x)
FLe(x, y) == ~IsNaN(x) /\ ~IsNaN(y) /\ x <= y

\* x + y on floats
FAdd(x, y) ==
    IF IsNaN(x) \/ IsNaN(y) THEN NaN
    ELSE IF x = PosInf THEN (IF y = NegInf THEN NaN ELSE PosInf)
    ELSE IF x = NegInf THEN (IF y = PosInf THEN NaN ELSE NegInf)
    ELSE IF y = PosInf \/ y = NegInf THEN y
    ELSE x + y

\* the builtins min(a, b) and max(a, b): the first argument is kept unless
\* the second compares strictly below (above) it
PyMin(a, b) == IF FLt(b, a) THEN b ELSE a
PyMax(a, b) == IF FGt(b, a) THEN b ELSE a

-----------------------------------------------------------------------------
(* Text *)

Whitespace == {" ", "\n"}
Comma == ","

RECURSIVE LStrip(_)
LStrip(s) ==
    IF s # <<>> /\ Head(s) \in Whitespace THEN LStrip(Tail(s)) ELSE s

RECURSIVE RStrip(_)
RStrip(s) ==
    IF s # <<>> /\ s[Len(s)] \in Whitespace
    THEN RStrip(SubSeq(s, 1, Len(s) - 1))
    ELSE s

\* str.strip()
Strip(s) == RStrip(LStrip(s))

\* str.split(','): the fields between the commas; "" splits to [""]
RECURSIVE SplitFrom(_, _)
SplitFrom(s, field) ==
    IF s = <<>> THEN <<field>>
    ELSE IF Head(s) = Comma THEN <<field>> \o SplitFrom(Tail(s), <<>>)
    ELSE SplitFrom(Tail(s), Append(field, Head(s)))

Split(s) == SplitFrom(s, <<>>)

\* the numerals float() converts, with the float each denotes
NumeralValue(tok) ==
    CASE tok = "100" -> 100
      [] tok = "200" -> 200
      [] tok = "5000" -> 5000
      [] tok = "6000" -> 6000
      [] tok = "-3" -> 0 - 3
      [] tok = "inf" -> PosInf
      [] tok = "-inf" -> NegInf
      [] tok = "nan" -> NaN

Numerals == {"100", "200", "5000", "6000", "-3", "inf", "-inf", "nan"}

\* float(field): white space around the numeral is ignored; anything else
\* raises ValueError
FloatRaises(field) ==
    ~(Len(Strip(field)) = 1 /\ Strip(field)[1] \in Numerals)

FloatOf(field) == NumeralValue(Strip(field)[1])

\* str(x) of a float, as an f-string formats it
FloatStr(x) ==
    CASE x = 100 -> "100.0"
      [] x = 200 -> "200.0"
      [] x = 5000 -> "5000.0"
      [] x = 6000 -> "6000.0"
      [] x = 0 - 3 -> "-3.0"
      [] x = PosInf -> "inf"
      [] x = NegInf -> "-inf"
      [] x = NaN -> "nan"

\* the lines of a text that ends with a line feed
RECURSIVE LinesFrom(_, _)
LinesFrom(s, line) ==
    IF s = <<>> THEN (IF line = <<>> THEN <<>> ELSE <<line>>)
    ELSE IF Head(s) = "\n" THEN <<line>> \o LinesFrom(Tail(s), <<>>)
    ELSE LinesFrom(Tail(s), Append(line, Head(s)))

Lines(s) == LinesFrom(s, <<>>)

\* the time stamps datetime.fromisoformat accepts once a 'Z' is replaced by
\* '+00:00'; no white space is tolerated
IsoTimestamps == {"2025-11-04T15:30:45.123", "2025-11-04T15:30:46Z"}

FromIsoFormatRaises(field) ==
    ~(Len(field) = 1 /\ field[1] \in IsoTimestamps)

-----------------------------------------------------------------------------
(* SensorData *)

\* Optional[X]: None, or Some(x) for a value x of X
None == <<>>
Some(x) == <<x>>
Get(o) == o[1]

\* SensorData.__init__: the record, or the ValueError of its conversions
SensorDataRaises(sensor_id, timestamp, value, unit) ==
    FloatRaises(value) \/ FromIsoFormatRaises(timestamp)

SensorData(sensor_id, timestamp, value, unit) ==
    [sensor_id |-> sensor_id,
     timestamp |-> timestamp,
     value |-> FloatOf(value),
     unit |-> unit]

to_dict(data) ==
    [sensor_id |-> data.sensor_id,
     timestamp |-> data.timestamp,
     value |-> data.value,
     unit |-> data.unit]

-----------------------------------------------------------------------------
(* UDPServer.parse_csv_message *)

\* The outcome of a call: the value returned (a SensorData or None) and
\* whether the on_error callback was invoked by its exception handler.
ParseOutcome(result, reported) == [result |-> result, reported |-> reported]

\* a parser whose records never check their time stamp
parse_csv_messageAnyTimestamp(line) ==
    LET parts == Split(Strip(line))
    IN  IF Len(parts) # 4 THEN ParseOutcome(None, FALSE)
        ELSE IF FloatRaises(parts[3]) THEN ParseOutcome(None, FALSE)
        ELSE ParseOutcome(
                 Some(SensorData(parts[1], parts[2], parts[3], parts[4])),
                 FALSE)

\* a parser that asks for at least four fields and reads the first four
parse_csv_messageFirstFour(line) ==
    LET parts == Split(Strip(line))
    IN  IF Len(parts) < 4 THEN ParseOutcome(None, FALSE)
        ELSE IF FloatRaises(parts[3]) THEN ParseOutcome(None, FALSE)
        ELSE IF SensorDataRaises(parts[1], parts[2], parts[3], parts[4])
             THEN ParseOutcome(None, TRUE)
        ELSE ParseOutcome(
                 Some(SensorData(parts[1], parts[2], parts[3], parts[4])),
                 FALSE)

parse_csv_message(line) ==
    LET parts == Split(Strip(line))
    IN  IF Len(parts) # 4 THEN ParseOutcome(None, FALSE)
        ELSE IF FloatRaises(parts[3]) THEN ParseOutcome(None, FALSE)
        ELSE IF SensorDataRaises(parts[1], parts[2], parts[3], parts[4])
             THEN ParseOutcome(None, TRUE)
        ELSE ParseOutcome(
                 Some(SensorData(parts[1], parts[2], parts[3], parts[4])),
                 FALSE)

-----------------------------------------------------------------------------
(* Inputs *)

Line(sensor_id, timestamp, value, unit) ==
    <<sensor_id, ",", timestamp, ",", value, ",", unit>>

\* sender addresses
Addresses == {"10.0.0.7:4000", "10.0.0.8:4001"}

Datagram(bytes, addr, utf8) == [bytes |-> bytes, addr |-> addr, utf8 |-> utf8]

TS1 == "2025-11-04T15:30:45.123"
TS2 == "2025-11-04T15:30:46Z"

\* lines the parser accepts
ValidLines ==
    { Line("S1", TS1, "100", "ADC"),
      Line("S1", TS2, "6000", "ADC") \o <<"\n">>,
      Line("S2", TS1, "5000", "mV"),
      Line("S1", TS1, "-3", "ADC"),
      Line("S1", TS1, "nan", "ADC") }

\* lines the parser refuses: two fields, five fields, the empty line, a
\* value that is no number, a time stamp that is no ISO date
RefusedLines ==
    { <<"only", ",", "two">>,
      Line("S1", TS1, "100", "ADC") \o <<",", "x">>,
      <<>>,
      Line("S1", TS1, "abc", "ADC"),
      Line("S1", "yesterday", "100", "ADC") }

\* what recvfrom can hand to the loop
Datagrams ==
    { Datagram(l, "10.0.0.7:4000", TRUE) : l \in ValidLines \cup RefusedLines }
    \cup { Datagram(Line("S2", TS1, "5000", "mV"), "10.0.0.8:4001", TRUE),
           Datagram(Line("S1", TS1, "100", "ADC"), "10.0.0.7:4000", FALSE) }

\* what a single sensor sends while an owner drives the server
OwnerDatagrams ==
    { Datagram(Line("S1", TS1, "100", "ADC"), "10.0.0.7:4000", TRUE),
      Datagram(Line("S1", TS2, "6000", "ADC") \o <<"\n">>, "10.0.0.7:4000",
               TRUE) }

\* what reaches the socket in a run checked for progress: a record, a line
\* the parser refuses, bytes that are not UTF-8
FairDatagrams ==
    { Datagram(Line("S1", TS1, "100", "ADC"), "10.0.0.7:4000", TRUE),
      Datagram(<<"only", ",", "two">>, "10.0.0.7:4000", TRUE),
      Datagram(Line("S1", TS1, "100", "ADC"), "10.0.0.7:4000", FALSE) }

\* values the operator can set the alert spin box to
Thresholds == {50, 5000}

-----------------------------------------------------------------------------
(* State *)

\* threads a server object creates in one run
MaxThreads == 2
\* calls of start(), stop() and get_stats() an owner makes in one run
MaxCalls == 3
\* datagrams the socket delivers while an owner drives the server
MaxOwnerDatagrams == 1
\* errors reported in one run before a dead socket is left alone
MaxErrors == 1
\* datagrams the socket delivers in a run checked for progress
MaxFairDatagrams == 2
\* receive timeouts a run counts
MaxTimeouts == 1
\* points the graph of the window keeps, for the 60 of the program
MaxGraphPoints == 2

Threads == 1..MaxThreads

VARIABLES
    \* UDPServer fields; thread is 0 for None, else the thread created last
    max_history, running, sock, thread, sensor_id, client_address,
    current_data, history, total_readings, min_value, max_value, sum_values,
    high_vibration_events,
    \* the receive-loop threads: position, locals and pending exception of
    \* each
    pc, message, addr, parsed_data, exc,
    \* the invocations of the two callbacks, in order
    error_calls, data_calls,
    \* VibrationMonitorGUI
    gui, alert_threshold,
    \* the thread that owns the server: its position inside stop(), what
    \* its last start() and get_stats() returned, the calls it has made
    owner, returned, stats_read, calls,
    \* the outcome of a call of the parser alone
    parse_result,
    \* a reader of the server: the list its last get_history_data()
    \* returned, the state of the deque when its iteration began, the file
    \* its last export_to_csv() wrote, the exception that reached it, and
    \* the number of mutations the server had seen at its last read
    hist_read, iter_state, file, raised, read_at,
    \* history of the run: the datagrams the senders may put on the wire,
    \* how many the socket may deliver and has delivered, the records the
    \* parser accepted, and the accepted records that exceeded the alert
    \* threshold in force when they were processed
    network, quota, delivered, accepted, crossings,
    \* the receive timeouts the run has counted, for the runs that count
    \* them (None for those that do not)
    timeouts,
    \* the window: the data_received events posted to its thread and not
    \* yet handled, the number its slot has handled, and the two lists
    \* behind its graph
    queue, handled, history_values, history_timestamps

server_vars ==
    <<max_history, running, sock, thread, sensor_id, client_address,
      current_data, history, total_readings, min_value, max_value,
      sum_values, high_vibration_events>>
thread_vars == <<pc, message, addr, parsed_data, exc>>
callback_vars == <<error_calls, data_calls>>
gui_vars == <<gui, alert_threshold>>
owner_vars == <<owner, returned, stats_read, calls>>
reader_vars == <<hist_read, iter_state, file, raised, read_at>>
ghost_vars == <<network, quota, delivered, accepted, crossings, timeouts>>
window_vars == <<queue, handled, history_values, history_timestamps>>

vars ==
    <<server_vars, thread_vars, callback_vars, gui_vars, owner_vars,
      parse_result, reader_vars, ghost_vars, window_vars>>

DEFAULT_VIBRATION_THRESHOLD == 5000

\* the statistics, history and source binding a datagram may change
stats_vars ==
    <<total_readings, sum_values, min_value, max_value,
      high_vibration_events, history, current_data, sensor_id,
      client_address>>

\* a thread that was started and has not left its loop
Alive(w) == pc[w] \notin {"none", "exited"}

\* a thread that holds a datagram it has not finished with: its callbacks
\* may take any time
Handling(w) ==
    pc[w] \in {"parse", "bind", "current", "count", "append", "sum", "min",
               "max", "threshold", "notify"}

-----------------------------------------------------------------------------
(* UDPServer: construction and read accessors *)

\* UDPServer.__init__ followed by VibrationMonitorGUI.__init__ up to
\* setup_server
ServerInit ==
    /\ running = FALSE
    /\ sock = "none"
    /\ thread = 0
    /\ sensor_id = None
    /\ current_data = None
    /\ history = <<>>
    /\ client_address = None
    /\ total_readings = 0
    /\ min_value = PosInf
    /\ max_value = 0
    /\ sum_values = 0
    /\ high_vibration_events = 0
    /\ pc = [w \in Threads |-> "none"]
    /\ addr = [w \in Threads |-> ""]
    /\ parsed_data = [w \in Threads |-> None]
    /\ exc = [w \in Threads |-> "none"]
    /\ error_calls = <<>>
    /\ data_calls = <<>>
    /\ alert_threshold = 5000
    /\ owner = "idle"
    /\ returned = None
    /\ stats_read = None
    /\ calls = <<>>
    /\ hist_read = None
    /\ iter_state = 0
    /\ file = None
    /\ raised = "none"
    /\ read_at = 0
    /\ queue = <<>>
    /\ handled = 0
    /\ history_values = <<>>
    /\ history_timestamps = <<>>
    /\ delivered = 0
    /\ accepted = <<>>
    /\ crossings = 0

Init ==
    /\ ServerInit
    /\ timeouts = None
    /\ max_history \in {0, MaxCap}
    /\ gui = "constructed"
    /\ message = [w \in Threads |-> <<>>]
    /\ parse_result = None
    /\ network = Datagrams
    /\ quota = MaxDatagrams

\* a deque without maxlen
DequeAppendUnbounded(dq, x, cap) == Append(dq, x)

\* a full deque that gives up its newest entry instead of its oldest
DequeAppendEvictNewest(dq, x, cap) ==
    IF cap = 0 THEN dq
    ELSE IF Len(dq) >= cap THEN Append(SubSeq(dq, 1, Len(dq) - 1), x)
    ELSE Append(dq, x)

\* deque.append on a deque(maxlen = cap)
DequeAppend(dq, x, cap) ==
    IF cap = 0 THEN dq
    ELSE IF Len(dq) >= cap THEN Append(Tail(dq), x)
    ELSE Append(dq, x)

\* round(x / n, 2), in hundredths; x / n has no tie at the third decimal for
\* the counts of the model
RoundedAverage(x, n) ==
    IF ~IsFinite(x) THEN x
    ELSE IF x >= 0 THEN (200 * x + n) \div (2 * n)
    ELSE 0 - ((200 * (0 - x) + n) \div (2 * n))

EmptyDict == [empty |-> TRUE]

\* a get_stats that averages what the history still holds
RECURSIVE HistorySum(_)
HistorySum(h) ==
    IF h = <<>> THEN 0 ELSE FAdd(Head(h).value, HistorySum(Tail(h)))

get_statsAverageOfHistory ==
    IF total_readings = 0 THEN EmptyDict
    ELSE [total_readings |-> total_readings,
          min_value |-> min_value,
          max_value |-> max_value,
          avg_value |->
              IF history = <<>> THEN 0
              ELSE RoundedAverage(HistorySum(history), Len(history)),
          high_vibration_events |-> high_vibration_events,
          last_timestamp |->
              IF current_data # None
              THEN Some(Get(current_data).timestamp)
              ELSE None]

\* a get_stats that takes an empty history for the absence of readings
get_statsByHistory ==
    IF history = <<>> THEN EmptyDict
    ELSE [total_readings |-> total_readings,
          min_value |-> min_value,
          max_value |-> max_value,
          avg_value |-> RoundedAverage(sum_values, total_readings),
          high_vibration_events |-> high_vibration_events,
          last_timestamp |->
              IF current_data # None
              THEN Some(Get(current_data).timestamp)
              ELSE None]

get_stats ==
    IF total_readings = 0 THEN EmptyDict
    ELSE [total_readings |-> total_readings,
          min_value |-> min_value,
          max_value |-> max_value,
          avg_value |-> RoundedAverage(sum_values, total_readings),
          high_vibration_events |-> high_vibration_events,
          last_timestamp |->
              IF current_data # None
              THEN Some(Get(current_data).timestamp)
              ELSE None]

get_history_data == [i \in 1..Len(history) |-> to_dict(history[i])]

-----------------------------------------------------------------------------
(* UDPServer.start and UDPServer.stop *)

\* UDPServer.init: the socket is created, then the bind succeeds or raises;
\* a failure is reported through on_error
init(bound) ==
    IF bound
    THEN /\ sock' = "bound"
         /\ UNCHANGED error_calls
    ELSE /\ sock' = "unbound"
         /\ error_calls' = Append(error_calls, "Erro ao inicializar socket")

\* the thread object threading.Thread(...) makes next
NewThread ==
    CHOOSE w \in Threads :
        pc[w] = "none" /\ \A v \in 1..(w - 1) : pc[v] # "none"

\* a start() that goes on to run the loop although init() failed
startIgnoringInit(bound) ==
    /\ init(bound)
    /\ \E w \in Threads : pc[w] = "none"
    /\ running' = TRUE
    /\ thread' = NewThread
    /\ pc' = [pc EXCEPT ![NewThread] = "while"]
    /\ returned' = Some(TRUE)

\* UDPServer.start; there is no check for a thread already running
start(bound) ==
    /\ init(bound)
    /\ IF bound
       THEN /\ \E w \in Threads : pc[w] = "none"
            /\ running' = TRUE
            /\ thread' = NewThread
            /\ pc' = [pc EXCEPT ![NewThread] = "while"]
            /\ returned' = Some(TRUE)
       ELSE /\ returned' = Some(FALSE)
            /\ UNCHANGED <<running, thread, pc>>

\* a stop() that closes the socket with the flag still set
StopFlagKept ==
    /\ owner' = "stop_close"
    /\ UNCHANGED running

\* UDPServer.stop, first statement: self.running = False
StopFlag ==
    /\ owner' = "stop_close"
    /\ running' = FALSE

\* a stop() that also discards what the run has gathered
StopCloseDiscarding ==
    /\ owner = "stop_close"
    /\ sock' = IF sock # "none" THEN "closed" ELSE sock
    /\ owner' = "stop_join"
    /\ history' = <<>>
    /\ total_readings' = 0
    /\ UNCHANGED <<max_history, running, thread, sum_values, min_value,
                   max_value, high_vibration_events, current_data, sensor_id,
                   client_address, thread_vars, callback_vars, gui_vars,
                   window_vars, returned, stats_read, calls, parse_result,
                   reader_vars, ghost_vars>>

\* UDPServer.stop, second statement: the socket, if there is one, is closed
StopClose ==
    /\ owner = "stop_close"
    /\ sock' = IF sock # "none" THEN "closed" ELSE sock
    /\ owner' = "stop_join"
    /\ UNCHANGED <<max_history, running, thread, stats_vars, thread_vars,
                   callback_vars, gui_vars, window_vars, returned, stats_read,
                   calls, parse_result, reader_vars, ghost_vars>>

\* UDPServer.stop, third statement: self.thread.join(timeout=2.0), if there
\* is a thread.  The join ends when the thread has left its loop.  It
\* expires only if the thread is held for two seconds by the handling of a
\* datagram; a thread that waits in recvfrom is released within one.
StopJoin ==
    /\ owner = "stop_join"
    /\ \/ thread = 0
       \/ /\ thread # 0
          /\ pc[thread] = "exited"
       \/ /\ thread # 0
          /\ Handling(thread)
    /\ owner' = "idle"
    /\ UNCHANGED <<server_vars, thread_vars, callback_vars, gui_vars,
                   window_vars, returned, stats_read, calls, parse_result,
                   reader_vars, ghost_vars>>

stop == StopClose \/ StopJoin

-----------------------------------------------------------------------------
(* The GUI handlers *)

\* VibrationMonitorGUI.setup_server: the one call of start(), made while the
\* window is constructed
setup_server ==
    /\ gui = "constructed"
    /\ gui' = "shown"
    /\ \E bound \in BOOLEAN : start(bound)
    /\ UNCHANGED <<max_history, stats_vars, message, addr, parsed_data, exc,
                   data_calls, alert_threshold, window_vars, owner,
                   stats_read, calls, parse_result, reader_vars, ghost_vars>>

\* VibrationMonitorGUI.closeEvent: self.server.stop()
closeEvent ==
    /\ gui = "shown"
    /\ owner = "idle"
    /\ gui' = "closed"
    /\ StopFlag
    /\ UNCHANGED <<max_history, sock, thread, stats_vars, thread_vars,
                   callback_vars, alert_threshold, window_vars, returned,
                   stats_read, calls, parse_result, reader_vars, ghost_vars>>

\* VibrationMonitorGUI.on_threshold_changed
on_threshold_changed(value) ==
    /\ gui = "shown"
    /\ alert_threshold' = value
    /\ UNCHANGED <<server_vars, thread_vars, callback_vars, gui, window_vars,
                   owner_vars, parse_result, reader_vars, ghost_vars>>

ThresholdChanged ==
    \E value \in Thresholds :
        value # alert_threshold /\ on_threshold_changed(value)

-----------------------------------------------------------------------------
(* UDPServer._receive_loop, one action per statement, for the thread w *)

\* a loop that never looks at the flag
LoopWhileTrue(w) ==
    /\ pc[w] = "while"
    /\ pc' = [pc EXCEPT ![w] = "recv"]
    /\ UNCHANGED <<server_vars, message, addr, parsed_data, exc,
                   callback_vars, gui_vars, window_vars, owner_vars,
                   parse_result, reader_vars, ghost_vars>>

\* while self.running
LoopWhile(w) ==
    /\ pc[w] = "while"
    /\ pc' = [pc EXCEPT ![w] = IF running THEN "recv" ELSE "exited"]
    /\ UNCHANGED <<server_vars, message, addr, parsed_data, exc,
                   callback_vars, gui_vars, window_vars, owner_vars,
                   parse_result, reader_vars, ghost_vars>>

\* recvfrom returns a datagram, which is then decoded
LoopRecv(w) ==
    /\ pc[w] = "recv"
    /\ sock = "bound"
    /\ delivered < quota
    /\ delivered' = delivered + 1
    /\ \E d \in network :
         IF d.utf8
         THEN /\ message' = [message EXCEPT ![w] = d.bytes]
              /\ addr' = [addr EXCEPT ![w] = d.addr]
              /\ pc' = [pc EXCEPT ![w] = "parse"]
              /\ UNCHANGED exc
         ELSE \* UnicodeDecodeError
              /\ addr' = [addr EXCEPT ![w] = d.addr]
              /\ pc' = [pc EXCEPT ![w] = "except"]
              /\ exc' = [exc EXCEPT ![w] = "decode"]
              /\ UNCHANGED message
    /\ UNCHANGED <<server_vars, parsed_data, callback_vars, gui_vars,
                   window_vars, owner_vars, parse_result, reader_vars,
                   network, quota, timeouts, accepted, crossings>>

\* one more timeout, in a run that counts them and has counted fewer than
\* MaxTimeouts
CountTimeout ==
    IF timeouts # None /\ Get(timeouts) < MaxTimeouts
    THEN Some(Get(timeouts) + 1)
    ELSE timeouts

\* a loop that treats a timeout as any other exception of the receive
LoopTimeoutAsError(w) ==
    /\ pc[w] = "recv"
    /\ sock \in {"bound", "closed"}
    /\ Len(error_calls) < MaxErrors
    /\ exc' = [exc EXCEPT ![w] = "transport"]
    /\ pc' = [pc EXCEPT ![w] = "except"]
    /\ timeouts' = CountTimeout
    /\ UNCHANGED <<server_vars, message, addr, parsed_data,
                   callback_vars, gui_vars, window_vars, owner_vars,
                   parse_result, reader_vars, network, quota, delivered,
                   accepted, crossings>>

\* recvfrom raises socket.timeout after one second without a datagram; a
\* receive that was waiting when the socket was closed may end this way too
LoopTimeout(w) ==
    /\ pc[w] = "recv"
    /\ sock \in {"bound", "closed"}
    /\ pc' = [pc EXCEPT ![w] = "while"]
    /\ timeouts' = CountTimeout
    /\ UNCHANGED <<server_vars, message, addr, parsed_data, exc,
                   callback_vars, gui_vars, window_vars, owner_vars,
                   parse_result, reader_vars, network, quota, delivered,
                   accepted, crossings>>

\* recvfrom raises OSError: the socket was closed by stop(), or the
\* transport failed (on a socket that was never bound, where the platform
\* refuses the receive)
LoopRecvError(w) ==
    /\ pc[w] = "recv"
    /\ \/ /\ sock = "closed"
          /\ Len(error_calls) < MaxErrors
          /\ exc' = [exc EXCEPT ![w] = "closed"]
          /\ UNCHANGED delivered
       \/ /\ sock = "bound"
          /\ delivered < quota
          /\ delivered' = delivered + 1
          /\ exc' = [exc EXCEPT ![w] = "transport"]
       \/ /\ sock = "unbound"
          /\ Len(error_calls) < MaxErrors
          /\ exc' = [exc EXCEPT ![w] = "transport"]
          /\ UNCHANGED delivered
    /\ pc' = [pc EXCEPT ![w] = "except"]
    /\ UNCHANGED <<server_vars, message, addr, parsed_data, callback_vars,
                   gui_vars, window_vars, owner_vars, parse_result,
                   reader_vars, network, quota, timeouts, accepted,
                   crossings>>

\* parsed_data = self.parse_csv_message(message); if not parsed_data: continue
LoopParse(w) ==
    /\ pc[w] = "parse"
    /\ LET outcome == parse_csv_message(message[w])
       IN  /\ parsed_data' = [parsed_data EXCEPT ![w] = outcome.result]
           /\ error_calls' =
                  IF outcome.reported
                  THEN Append(error_calls, "Erro ao fazer parse")
                  ELSE error_calls
           /\ IF outcome.result = None
              THEN /\ pc' = [pc EXCEPT ![w] = "while"]
                   /\ UNCHANGED accepted
              ELSE /\ pc' = [pc EXCEPT ![w] = "bind"]
                   /\ accepted' = Append(accepted, Get(outcome.result))
    /\ UNCHANGED <<server_vars, message, addr, exc, data_calls, gui_vars,
                   window_vars, owner_vars, parse_result, reader_vars,
                   network, quota, timeouts, delivered, crossings>>

\* a loop in which every record names the source anew
LoopBindAlways(w) ==
    /\ pc[w] = "bind"
    /\ sensor_id' = Some(Get(parsed_data[w]).sensor_id)
    /\ client_address' = Some(addr[w])
    /\ pc' = [pc EXCEPT ![w] = "current"]
    /\ UNCHANGED <<max_history, running, sock, thread, current_data, history,
                   total_readings, min_value, max_value, sum_values,
                   high_vibration_events, message, addr, parsed_data, exc,
                   callback_vars, gui_vars, window_vars, owner_vars,
                   parse_result, reader_vars, ghost_vars>>

\* a loop that drops the records of any sensor but the one it is bound to
LoopBindRejectingOthers(w) ==
    /\ pc[w] = "bind"
    /\ IF sensor_id = None
       THEN /\ sensor_id' = Some(Get(parsed_data[w]).sensor_id)
            /\ client_address' = Some(addr[w])
            /\ pc' = [pc EXCEPT ![w] = "current"]
       ELSE /\ UNCHANGED <<sensor_id, client_address>>
            /\ pc' = [pc EXCEPT ![w] =
                          IF Get(parsed_data[w]).sensor_id = Get(sensor_id)
                          THEN "current" ELSE "while"]
    /\ UNCHANGED <<max_history, running, sock, thread, current_data, history,
                   total_readings, min_value, max_value, sum_values,
                   high_vibration_events, message, addr, parsed_data, exc,
                   callback_vars, gui_vars, window_vars, owner_vars,
                   parse_result, reader_vars, ghost_vars>>

\* a loop that names the source from the second record on
LoopBindFromSecond(w) ==
    /\ pc[w] = "bind"
    /\ IF sensor_id = None /\ total_readings > 0
       THEN /\ sensor_id' = Some(Get(parsed_data[w]).sensor_id)
            /\ client_address' = Some(addr[w])
       ELSE UNCHANGED <<sensor_id, client_address>>
    /\ pc' = [pc EXCEPT ![w] = "current"]
    /\ UNCHANGED <<max_history, running, sock, thread, current_data, history,
                   total_readings, min_value, max_value, sum_values,
                   high_vibration_events, message, addr, parsed_data, exc,
                   callback_vars, gui_vars, window_vars, owner_vars,
                   parse_result, reader_vars, ghost_vars>>

\* if self.sensor_id is None: the first record names the source
LoopBind(w) ==
    /\ pc[w] = "bind"
    /\ IF sensor_id = None
       THEN /\ sensor_id' = Some(Get(parsed_data[w]).sensor_id)
            /\ client_address' = Some(addr[w])
       ELSE UNCHANGED <<sensor_id, client_address>>
    /\ pc' = [pc EXCEPT ![w] = "current"]
    /\ UNCHANGED <<max_history, running, sock, thread, current_data, history,
                   total_readings, min_value, max_value, sum_values,
                   high_vibration_events, message, addr, parsed_data, exc,
                   callback_vars, gui_vars, window_vars, owner_vars,
                   parse_result, reader_vars, ghost_vars>>

\* a loop that keeps the first record as its current one
LoopCurrentKeepFirst(w) ==
    /\ pc[w] = "current"
    /\ current_data' = IF current_data = None THEN parsed_data[w]
                       ELSE current_data
    /\ pc' = [pc EXCEPT ![w] = "count"]
    /\ UNCHANGED <<max_history, running, sock, thread, sensor_id,
                   client_address, history, total_readings, min_value,
                   max_value, sum_values, high_vibration_events, message,
                   addr, parsed_data, exc, callback_vars, gui_vars,
                   window_vars, owner_vars, parse_result, reader_vars,
                   ghost_vars>>

\* self.current_data = parsed_data
LoopCurrent(w) ==
    /\ pc[w] = "current"
    /\ current_data' = parsed_data[w]
    /\ pc' = [pc EXCEPT ![w] = "count"]
    /\ UNCHANGED <<max_history, running, sock, thread, sensor_id,
                   client_address, history, total_readings, min_value,
                   max_value, sum_values, high_vibration_events, message,
                   addr, parsed_data, exc, callback_vars, gui_vars,
                   window_vars, owner_vars, parse_result, reader_vars,
                   ghost_vars>>

-----------------------------------------------------------------------------
(* UDPServer.update_stats, one action per statement; value = data.value *)

value(w) == Get(parsed_data[w]).value

\* self.total_readings += 1
\* an update_stats whose counter is one bit wide
UpdateCountOneBit(w) ==
    /\ pc[w] = "count"
    /\ total_readings' = (total_readings + 1) % 2
    /\ pc' = [pc EXCEPT ![w] = "append"]
    /\ UNCHANGED <<max_history, running, sock, thread, sensor_id,
                   client_address, current_data, history, min_value,
                   max_value, sum_values, high_vibration_events, message,
                   addr, parsed_data, exc, callback_vars, gui_vars,
                   window_vars, owner_vars, parse_result, reader_vars,
                   ghost_vars>>

UpdateCount(w) ==
    /\ pc[w] = "count"
    /\ total_readings' = total_readings + 1
    /\ pc' = [pc EXCEPT ![w] = "append"]
    /\ UNCHANGED <<max_history, running, sock, thread, sensor_id,
                   client_address, current_data, history, min_value,
                   max_value, sum_values, high_vibration_events, message,
                   addr, parsed_data, exc, callback_vars, gui_vars,
                   window_vars, owner_vars, parse_result, reader_vars,
                   ghost_vars>>

\* an update_stats that keeps only the first record
UpdateAppendFirstOnly(w) ==
    /\ pc[w] = "append"
    /\ history' = IF history = <<>>
                  THEN DequeAppend(history, Get(parsed_data[w]), max_history)
                  ELSE history
    /\ pc' = [pc EXCEPT ![w] = "sum"]
    /\ UNCHANGED <<max_history, running, sock, thread, sensor_id,
                   client_address, current_data, total_readings, min_value,
                   max_value, sum_values, high_vibration_events, message,
                   addr, parsed_data, exc, callback_vars, gui_vars,
                   window_vars, owner_vars, parse_result, reader_vars,
                   ghost_vars>>

\* self.history.append(data)
UpdateAppend(w) ==
    /\ pc[w] = "append"
    /\ history' = DequeAppend(history, Get(parsed_data[w]), max_history)
    /\ pc' = [pc EXCEPT ![w] = "sum"]
    /\ UNCHANGED <<max_history, running, sock, thread, sensor_id,
                   client_address, current_data, total_readings, min_value,
                   max_value, sum_values, high_vibration_events, message,
                   addr, parsed_data, exc, callback_vars, gui_vars,
                   window_vars, owner_vars, parse_result, reader_vars,
                   ghost_vars>>

\* self.sum_values += value
UpdateSum(w) ==
    /\ pc[w] = "sum"
    /\ sum_values' = FAdd(sum_values, value(w))
    /\ pc' = [pc EXCEPT ![w] = "min"]
    /\ UNCHANGED <<max_history, running, sock, thread, sensor_id,
                   client_address, current_data, history, total_readings,
                   min_value, max_value, high_vibration_events, message, addr,
                   parsed_data, exc, callback_vars, gui_vars, window_vars,
                   owner_vars, parse_result, reader_vars, ghost_vars>>

\* self.min_value = min(self.min_value, value)
UpdateMin(w) ==
    /\ pc[w] = "min"
    /\ min_value' = PyMin(min_value, value(w))
    /\ pc' = [pc EXCEPT ![w] = "max"]
    /\ UNCHANGED <<max_history, running, sock, thread, sensor_id,
                   client_address, current_data, history, total_readings,
                   max_value, sum_values, high_vibration_events, message,
                   addr, parsed_data, exc, callback_vars, gui_vars,
                   window_vars, owner_vars, parse_result, reader_vars,
                   ghost_vars>>

\* self.max_value = max(self.max_value, value)
UpdateMax(w) ==
    /\ pc[w] = "max"
    /\ max_value' = PyMax(max_value, value(w))
    /\ pc' = [pc EXCEPT ![w] = "threshold"]
    /\ UNCHANGED <<max_history, running, sock, thread, sensor_id,
                   client_address, current_data, history, total_readings,
                   min_value, sum_values, high_vibration_events, message,
                   addr, parsed_data, exc, callback_vars, gui_vars,
                   window_vars, owner_vars, parse_result, reader_vars,
                   ghost_vars>>

\* the test of update_stats: value > DEFAULT_VIBRATION_THRESHOLD
IsHighVibration(v) == FGt(v, DEFAULT_VIBRATION_THRESHOLD)

\* if value > DEFAULT_VIBRATION_THRESHOLD: self.high_vibration_events += 1
\* (crossings counts against the threshold the operator has set)
UpdateThreshold(w) ==
    /\ pc[w] = "threshold"
    /\ high_vibration_events' =
           IF IsHighVibration(value(w))
           THEN high_vibration_events + 1
           ELSE high_vibration_events
    /\ crossings' =
           IF FGt(value(w), alert_threshold)
           THEN crossings + 1
           ELSE crossings
    /\ pc' = [pc EXCEPT ![w] = "notify"]
    /\ UNCHANGED <<max_history, running, sock, thread, sensor_id,
                   client_address, current_data, history, total_readings,
                   min_value, max_value, sum_values, message, addr,
                   parsed_data, exc, callback_vars, gui_vars, window_vars,
                   owner_vars, parse_result, reader_vars, network, quota,
                   timeouts, delivered, accepted>>

-----------------------------------------------------------------------------
(* UDPServer._receive_loop, continued *)

\* f"Erro ao receber dados: {e}"
ReceiveErrorMessage(e) ==
    CASE e = "closed" ->
             "Erro ao receber dados: [Errno 9] Bad file descriptor"
      [] e = "transport" ->
             "Erro ao receber dados: [Errno 111] Connection refused"
      [] e = "decode" ->
             "Erro ao receber dados: 'utf-8' codec can't decode byte"
      [] e \in {"callback", "on_data"} ->
             "Erro ao receber dados: wrapped C/C++ object has been deleted"

\* VibrationMonitorGUI.on_server_data: the dict the data_received signal
\* carries
on_server_data(data, stats) ==
    [data |-> [sensor_id |-> data.sensor_id,
               timestamp |-> data.timestamp,
               value |-> data.value,
               unit |-> data.unit],
     stats |-> stats]

\* self.signals.data_received.emit(info) from the loop's thread: the call
\* of the slot is posted to the thread of the window, if there is one
Emit(info) == IF gui = "none" THEN queue ELSE Append(queue, info)

\* a loop that hands each record to the data callback twice
LoopNotifyTwice(w) ==
    /\ pc[w] = "notify"
    /\ data_calls' =
           data_calls \o
               <<[data |-> Get(parsed_data[w]), stats |-> get_stats],
                 [data |-> Get(parsed_data[w]), stats |-> get_stats]>>
    /\ pc' = [pc EXCEPT ![w] = "while"]
    /\ queue' =
           IF gui = "none" THEN queue
           ELSE queue \o
                    <<on_server_data(Get(parsed_data[w]), get_stats),
                      on_server_data(Get(parsed_data[w]), get_stats)>>
    /\ UNCHANGED <<server_vars, message, addr, parsed_data, exc, error_calls,
                   gui_vars, handled, history_values, history_timestamps,
                   owner_vars, parse_result, reader_vars, ghost_vars>>

\* self.on_data_received(parsed_data, self.get_stats())
LoopNotify(w) ==
    /\ pc[w] = "notify"
    /\ data_calls' =
           Append(data_calls,
                  [data |-> Get(parsed_data[w]), stats |-> get_stats])
    /\ pc' = [pc EXCEPT ![w] = "while"]
    /\ queue' = Emit(on_server_data(Get(parsed_data[w]), get_stats))
    /\ UNCHANGED <<server_vars, message, addr, parsed_data, exc, error_calls,
                   gui_vars, handled, history_values, history_timestamps,
                   owner_vars, parse_result, reader_vars, ghost_vars>>

\* a handler that stops the loop after reporting
LoopExceptFatal(w) ==
    /\ pc[w] = "except"
    /\ error_calls' =
           IF running
           THEN Append(error_calls, ReceiveErrorMessage(exc[w]))
           ELSE error_calls
    /\ exc' = [exc EXCEPT ![w] = "none"]
    /\ pc' = [pc EXCEPT ![w] = "exited"]
    /\ UNCHANGED <<server_vars, message, addr, parsed_data, data_calls,
                   gui_vars, window_vars, owner_vars, parse_result,
                   reader_vars, ghost_vars>>

\* a handler that reports nothing
LoopExceptSilent(w) ==
    /\ pc[w] = "except"
    /\ exc' = [exc EXCEPT ![w] = "none"]
    /\ pc' = [pc EXCEPT ![w] = "while"]
    /\ UNCHANGED <<server_vars, message, addr, parsed_data, callback_vars,
                   gui_vars, window_vars, owner_vars, parse_result,
                   reader_vars, ghost_vars>>

\* except Exception: reported unless the server is shutting down
LoopExcept(w) ==
    /\ pc[w] = "except"
    /\ error_calls' =
           IF running
           THEN Append(error_calls, ReceiveErrorMessage(exc[w]))
           ELSE error_calls
    /\ exc' = [exc EXCEPT ![w] = "none"]
    /\ pc' = [pc EXCEPT ![w] = "while"]
    /\ UNCHANGED <<server_vars, message, addr, parsed_data, data_calls,
                   gui_vars, window_vars, owner_vars, parse_result,
                   reader_vars, ghost_vars>>

receive_loop(w) ==
    \/ LoopWhile(w)
    \/ LoopRecv(w)
    \/ LoopTimeout(w)
    \/ LoopRecvError(w)
    \/ LoopParse(w)
    \/ LoopBind(w)
    \/ LoopCurrent(w)
    \/ UpdateCount(w)
    \/ UpdateAppend(w)
    \/ UpdateSum(w)
    \/ UpdateMin(w)
    \/ UpdateMax(w)
    \/ UpdateThreshold(w)
    \/ LoopNotify(w)
    \/ LoopExcept(w)

-----------------------------------------------------------------------------
(* The same statements when the callback they call raises, as a signal     *)
(* emitted on a deleted object does.                                       *)

\* parse_csv_message: on_error raises inside the parser's handler; the
\* exception leaves the parser and is caught by the loop
LoopParseRaises(w) ==
    /\ pc[w] = "parse"
    /\ parse_csv_message(message[w]).reported
    /\ error_calls' = Append(error_calls, "Erro ao fazer parse")
    /\ exc' = [exc EXCEPT ![w] = "callback"]
    /\ pc' = [pc EXCEPT ![w] = "except"]
    /\ UNCHANGED <<server_vars, message, addr, parsed_data, data_calls,
                   gui_vars, window_vars, owner_vars, parse_result,
                   reader_vars, ghost_vars>>

\* on_data_received raises; the exception is caught by the loop
LoopNotifyRaises(w) ==
    /\ pc[w] = "notify"
    /\ data_calls' =
           Append(data_calls,
                  [data |-> Get(parsed_data[w]), stats |-> get_stats])
    /\ exc' = [exc EXCEPT ![w] = "on_data"]
    /\ pc' = [pc EXCEPT ![w] = "except"]
    /\ UNCHANGED <<server_vars, message, addr, parsed_data, error_calls,
                   gui_vars, window_vars, owner_vars, parse_result,
                   reader_vars, ghost_vars>>

\* on_error raises inside the loop's handler: nothing catches the
\* exception and _receive_loop ends with it
LoopExceptRaises(w) ==
    /\ pc[w] = "except"
    /\ running
    /\ error_calls' = Append(error_calls, ReceiveErrorMessage(exc[w]))
    /\ pc' = [pc EXCEPT ![w] = "exited"]
    /\ UNCHANGED <<server_vars, message, addr, parsed_data, exc, data_calls,
                   gui_vars, window_vars, owner_vars, parse_result,
                   reader_vars, ghost_vars>>

receive_loop_raising(w) ==
    \/ LoopParseRaises(w)
    \/ LoopNotifyRaises(w)
    \/ LoopExceptRaises(w)

-----------------------------------------------------------------------------
(* The running program: the window is constructed and starts the server,   *)
(* the receive loop runs in its thread, the operator moves the threshold,  *)
(* and the window is closed.                                               *)

Next ==
    \/ setup_server
    \/ \E w \in Threads : receive_loop(w)
    \/ ThresholdChanged
    \/ closeEvent
    \/ stop

Spec == Init /\ [][Next]_vars

\* The same program on a run of at most MaxFairDatagrams datagrams, with
\* its scheduling: a thread that can run does run, and a stop() that has
\* begun goes on.
InitFair ==
    /\ ServerInit
    /\ timeouts = None
    /\ max_history = MaxCap
    /\ gui = "constructed"
    /\ message = [w \in Threads |-> <<>>]
    /\ parse_result = None
    /\ network = FairDatagrams
    /\ quota = MaxFairDatagrams

FairSpec ==
    /\ InitFair
    /\ [][Next]_vars
    /\ \A w \in Threads : WF_vars(receive_loop(w))
    /\ WF_vars(stop)

\* The same program with callbacks that may raise.
RaisingDatagrams ==
    FairDatagrams
    \cup { Datagram(Line("S1", "yesterday", "100", "ADC"), "10.0.0.7:4000",
                    TRUE) }

InitRaising ==
    /\ ServerInit
    /\ timeouts = None
    /\ max_history = MaxCap
    /\ gui = "constructed"
    /\ message = [w \in Threads |-> <<>>]
    /\ parse_result = None
    /\ network = RaisingDatagrams
    /\ quota = MaxFairDatagrams

NextRaising ==
    \/ Next
    \/ \E w \in Threads : receive_loop_raising(w)

SpecRaising == InitRaising /\ [][NextRaising]_vars

-----------------------------------------------------------------------------
(* An owner that drives a server object through its public methods, from   *)
(* one thread, in any order.                                               *)

InitOwner ==
    /\ ServerInit
    /\ timeouts = None
    /\ max_history = MaxCap
    /\ gui = "none"
    /\ message = [w \in Threads |-> <<>>]
    /\ parse_result = None
    /\ network = OwnerDatagrams
    /\ quota = MaxOwnerDatagrams

\* server.start()
OwnerStart ==
    /\ owner = "idle"
    /\ Len(calls) < MaxCalls
    /\ calls' = Append(calls, "start")
    /\ \E bound \in BOOLEAN : start(bound)
    /\ UNCHANGED <<max_history, stats_vars, message, addr, parsed_data, exc,
                   data_calls, gui_vars, window_vars, owner, stats_read,
                   parse_result, reader_vars, ghost_vars>>

\* server.stop(), up to its first statement
OwnerStop ==
    /\ owner = "idle"
    /\ Len(calls) < MaxCalls
    /\ calls' = Append(calls, "stop")
    /\ StopFlag
    /\ UNCHANGED <<max_history, sock, thread, stats_vars, thread_vars,
                   callback_vars, gui_vars, window_vars, returned, stats_read,
                   parse_result, reader_vars, ghost_vars>>

\* server.get_stats()
OwnerGetStats ==
    /\ owner = "idle"
    /\ Len(calls) < MaxCalls
    /\ calls' = Append(calls, "get_stats")
    /\ stats_read' = Some(get_stats)
    /\ UNCHANGED <<server_vars, thread_vars, callback_vars, gui_vars,
                   window_vars, owner, returned, parse_result, reader_vars,
                   ghost_vars>>

NextOwner ==
    \/ OwnerStart
    \/ OwnerStop
    \/ stop
    \/ OwnerGetStats
    \/ \E w \in Threads : receive_loop(w)

SpecOwner == InitOwner /\ [][NextOwner]_vars

-----------------------------------------------------------------------------
(* A reader: an owner that starts the server once and then calls its read  *)
(* accessors and export_to_csv from its own thread while the loop runs.    *)

\* what the sensors send while the server is read: a plain record, and a
\* record whose identifier holds a line feed
ReaderDatagrams ==
    { Datagram(Line("S1", TS1, "100", "ADC"), "10.0.0.7:4000", TRUE),
      Datagram(<<"A", "\n", "B", ",", TS2, ",", "6000", ",", "ADC">>,
               "10.0.0.7:4000", TRUE) }

InitReader ==
    /\ ServerInit
    /\ timeouts = None
    /\ max_history = MaxCap
    /\ gui = "none"
    /\ message = [w \in Threads |-> <<>>]
    /\ parse_result = None
    /\ network = ReaderDatagrams
    /\ quota = MaxOwnerDatagrams

\* the state counter of the deque, which every append advances: the
\* records counted, less those whose append is still to come
DequeState ==
    total_readings - Cardinality({w \in Threads : pc[w] = "append"})

\* the statements of the loop that assign to the statistics, history and
\* source binding of one record, done by a thread at position p
StatementsDone(p) ==
    CASE p = "current" -> 1
      [] p = "count" -> 2
      [] p = "append" -> 3
      [] p = "sum" -> 4
      [] p = "min" -> 5
      [] p = "max" -> 6
      [] p = "threshold" -> 7
      [] p = "notify" -> 8
      [] OTHER -> 0

RECURSIVE StatementsInHand(_)
StatementsInHand(n) ==
    IF n = 0 THEN 0 ELSE StatementsDone(pc[n]) + StatementsInHand(n - 1)

\* how many such statements have been executed since construction
Mutations ==
    8 * (Len(accepted) - Cardinality({w \in Threads : Handling(w)
                                                      /\ pc[w] # "parse"}))
        + StatementsInHand(MaxThreads)

\* server.start(), once
ReaderStart == thread = 0 /\ OwnerStart

\* a get_stats() that hands the running sum over and starts a new one
ReaderGetStatsResetting ==
    /\ owner = "idle"
    /\ Len(calls) < MaxCalls
    /\ calls' = Append(calls, "get_stats")
    /\ stats_read' = Some(get_stats)
    /\ read_at' = Mutations
    /\ sum_values' = 0
    /\ UNCHANGED <<max_history, running, sock, thread, sensor_id,
                   client_address, current_data, history, total_readings,
                   min_value, max_value, high_vibration_events, thread_vars,
                   callback_vars, gui_vars, window_vars, owner, returned,
                   parse_result, hist_read, iter_state, file, raised,
                   ghost_vars>>

\* server.get_stats()
ReaderGetStats ==
    /\ owner = "idle"
    /\ Len(calls) < MaxCalls
    /\ calls' = Append(calls, "get_stats")
    /\ stats_read' = Some(get_stats)
    /\ read_at' = Mutations
    /\ UNCHANGED <<server_vars, thread_vars, callback_vars, gui_vars,
                   window_vars, owner, returned, parse_result, hist_read,
                   iter_state, file, raised, ghost_vars>>

\* server.get_history_data(): the comprehension creates the iterator of
\* the deque
ReaderGetHistoryBegin ==
    /\ owner = "idle"
    /\ Len(calls) < MaxCalls
    /\ calls' = Append(calls, "get_history_data")
    /\ owner' = "history_iter"
    /\ iter_state' = DequeState
    /\ UNCHANGED <<server_vars, thread_vars, callback_vars, gui_vars,
                   window_vars, returned, stats_read, parse_result, hist_read,
                   file, raised, read_at, ghost_vars>>

\* the comprehension runs to its end: the iterator raises RuntimeError if
\* the deque was appended to since it was created, else the list is
\* returned
ReaderGetHistoryEnd ==
    /\ owner = "history_iter"
    /\ owner' = "idle"
    /\ IF DequeState = iter_state
       THEN /\ hist_read' = Some(get_history_data)
            /\ raised' = "none"
            /\ read_at' = Mutations
       ELSE /\ raised' = "RuntimeError"
            /\ UNCHANGED <<hist_read, read_at>>
    /\ UNCHANGED <<server_vars, thread_vars, callback_vars, gui_vars,
                   window_vars, returned, stats_read, calls, parse_result,
                   iter_state, file, ghost_vars>>

\* f"Erro ao exportar CSV: {e}"
ExportErrorMessage(e) ==
    CASE e = "open" ->
             "Erro ao exportar CSV: [Errno 13] Permission denied"
      [] e = "write" ->
             "Erro ao exportar CSV: [Errno 28] No space left on device"
      [] e = "mutated" ->
             "Erro ao exportar CSV: deque mutated during iteration"

\* f.write("sensor_id,timestamp,value,unit\n")
Header == <<"sensor_id", ",", "timestamp", ",", "value", ",", "unit", "\n">>

\* f"{data.sensor_id},{data.timestamp},{data.value},{data.unit}\n"
Row(data) ==
    data.sensor_id \o <<",">> \o data.timestamp \o <<",">>
        \o <<FloatStr(data.value)>> \o <<",">> \o data.unit \o <<"\n">>

RECURSIVE Rows(_)
Rows(h) == IF h = <<>> THEN <<>> ELSE Row(Head(h)) \o Rows(Tail(h))

\* server.export_to_csv(filename): the file is opened and the header
\* written, and the for statement creates the iterator of the deque; or
\* open raises and the handler reports it
ReaderExportOpen ==
    /\ owner = "idle"
    /\ Len(calls) < MaxCalls
    /\ calls' = Append(calls, "export_to_csv")
    /\ \E opened \in BOOLEAN :
           IF opened
           THEN /\ file' = Some(Header)
                /\ owner' = "export_iter"
                /\ iter_state' = DequeState
                /\ UNCHANGED <<error_calls, returned, raised>>
           ELSE /\ error_calls' =
                       Append(error_calls, ExportErrorMessage("open"))
                /\ returned' = Some(FALSE)
                /\ raised' = "none"
                /\ UNCHANGED <<file, owner, iter_state>>
    /\ UNCHANGED <<server_vars, thread_vars, data_calls, gui_vars, window_vars,
                   stats_read, parse_result, hist_read, read_at,
                   ghost_vars>>

\* an export whose loop is outside the try statement
ReaderExportRowsUnguarded ==
    /\ owner = "export_iter"
    /\ owner' = "idle"
    /\ IF DequeState = iter_state
       THEN /\ file' = Some(Header \o Rows(history))
            /\ returned' = Some(TRUE)
            /\ raised' = "none"
       ELSE /\ raised' = "RuntimeError"
            /\ UNCHANGED <<file, returned>>
    /\ UNCHANGED <<server_vars, thread_vars, callback_vars, gui_vars,
                   window_vars, stats_read, calls, parse_result, hist_read,
                   iter_state, read_at, ghost_vars>>

\* the rows are written and the file closed.  The iterator raises
\* RuntimeError if the deque was appended to since it was created, and a
\* write can fail; the handler reports either and returns False.  Of a
\* file whose export failed only the header is kept here.
ReaderExportRows ==
    /\ owner = "export_iter"
    /\ owner' = "idle"
    /\ raised' = "none"
    /\ IF DequeState = iter_state
       THEN \E written \in BOOLEAN :
                IF written
                THEN /\ file' = Some(Header \o Rows(history))
                     /\ returned' = Some(TRUE)
                     /\ UNCHANGED error_calls
                ELSE /\ error_calls' =
                            Append(error_calls, ExportErrorMessage("write"))
                     /\ returned' = Some(FALSE)
                     /\ UNCHANGED file
       ELSE /\ error_calls' =
                   Append(error_calls, ExportErrorMessage("mutated"))
            /\ returned' = Some(FALSE)
            /\ UNCHANGED file
    /\ UNCHANGED <<server_vars, thread_vars, data_calls, gui_vars, window_vars,
                   stats_read, calls, parse_result, hist_read, iter_state,
                   read_at, ghost_vars>>

NextReader ==
    \/ ReaderStart
    \/ ReaderGetStats
    \/ ReaderGetHistoryBegin
    \/ ReaderGetHistoryEnd
    \/ ReaderExportOpen
    \/ ReaderExportRows
    \/ \E w \in Threads : receive_loop(w)

SpecReader == InitReader /\ [][NextReader]_vars

-----------------------------------------------------------------------------
(* The running program on a stream of the values 100, 6000 and 200.        *)

StreamDatagrams ==
    { Datagram(Line("S1", TS1, v, "ADC"), "10.0.0.7:4000", TRUE) :
          v \in {"100", "6000", "200"} }

InitStream ==
    /\ ServerInit
    /\ timeouts = None
    /\ max_history = MaxCap
    /\ gui = "constructed"
    /\ message = [w \in Threads |-> <<>>]
    /\ parse_result = None
    /\ network = StreamDatagrams
    /\ quota = MaxDatagrams

SpecStream == InitStream /\ [][Next]_vars

-----------------------------------------------------------------------------
(* The running program on a quiet line, its receive timeouts counted.      *)

InitIdle ==
    /\ ServerInit
    /\ timeouts = Some(0)
    /\ max_history = MaxCap
    /\ gui = "constructed"
    /\ message = [w \in Threads |-> <<>>]
    /\ parse_result = None
    /\ network = FairDatagrams
    /\ quota = MaxFairDatagrams

SpecIdle == InitIdle /\ [][Next]_vars

-----------------------------------------------------------------------------
(* The window: the slot of the data_received signal and the clear button.  *)
(* The signal is emitted in the loop's thread and the window lives in the  *)
(* main thread, so each emission posts one call of the slot, and the event *)
(* loop of the main thread makes the posted calls one at a time, oldest    *)
(* first, while it runs.                                                   *)

\* what the sensors send while the window is watched: two records, and a
\* record whose value is not a number
WindowDatagrams ==
    { Datagram(Line("S1", TS1, "100", "ADC"), "10.0.0.7:4000", TRUE),
      Datagram(Line("S1", TS2, "6000", "ADC") \o <<"\n">>, "10.0.0.7:4000",
               TRUE),
      Datagram(Line("S1", TS1, "nan", "ADC"), "10.0.0.7:4000", TRUE) }

InitWindow ==
    /\ ServerInit
    /\ timeouts = None
    /\ max_history = MaxCap
    /\ gui = "constructed"
    /\ message = [w \in Threads |-> <<>>]
    /\ parse_result = None
    /\ network = WindowDatagrams
    /\ quota = MaxDatagrams

\* self.max_graph_points
max_graph_points == MaxGraphPoints

\* int(x) raises ValueError for nan and OverflowError for an infinity
IntRaises(x) == ~IsFinite(x)

\* datetime.now(TIMEZONE_BRASILIA): the clock has moved on since the slot
\* last read it
now_brasilia == handled + 1

\* lst.append(x), and lst.pop(0) if the list has grown beyond
\* max_graph_points
Keep(lst, x) ==
    IF Len(lst) + 1 > max_graph_points THEN Tail(Append(lst, x))
    ELSE Append(lst, x)

\* a slot called with the newest posted event first
on_data_receivedNewestFirst ==
    /\ gui = "shown"
    /\ queue # <<>>
    /\ queue' = SubSeq(queue, 1, Len(queue) - 1)
    /\ handled' = handled + 1
    /\ history_values' = Keep(history_values, queue[Len(queue)].data.value)
    /\ history_timestamps' = Keep(history_timestamps, now_brasilia)
    /\ UNCHANGED <<server_vars, thread_vars, callback_vars, gui_vars,
                   owner_vars, parse_result, reader_vars, ghost_vars>>

\* VibrationMonitorGUI.on_data_received(info), called by the event loop
\* with the oldest posted event.  int(data['value']) raises for a value
\* that is not finite, before the lists are touched: PyQt then prints the
\* traceback and goes on, or aborts the process and with it every thread,
\* by its version.
on_data_received ==
    /\ gui = "shown"
    /\ queue # <<>>
    /\ queue' = Tail(queue)
    /\ handled' = handled + 1
    /\ IF IntRaises(Head(queue).data.value)
       THEN /\ \/ UNCHANGED <<gui, pc>>
               \/ /\ gui' = "aborted"
                  /\ pc' = [w \in Threads |->
                                IF Alive(w) THEN "exited" ELSE pc[w]]
            /\ UNCHANGED <<history_values, history_timestamps>>
       ELSE /\ history_values' =
                   Keep(history_values, Head(queue).data.value)
            /\ history_timestamps' = Keep(history_timestamps, now_brasilia)
            /\ UNCHANGED <<gui, pc>>
    /\ UNCHANGED <<server_vars, message, addr, parsed_data, exc,
                   callback_vars, alert_threshold, owner_vars, parse_result,
                   reader_vars, ghost_vars>>

\* VibrationMonitorGUI.on_clear_graph
on_clear_graph ==
    /\ gui = "shown"
    /\ history_values # <<>>
    /\ history_values' = <<>>
    /\ history_timestamps' = <<>>
    /\ UNCHANGED <<server_vars, thread_vars, callback_vars, gui_vars, queue,
                   handled, owner_vars, parse_result, reader_vars,
                   ghost_vars>>

NextWindow ==
    \/ Next
    \/ on_data_received
    \/ on_clear_graph

SpecWindow == InitWindow /\ [][NextWindow]_vars

-----------------------------------------------------------------------------
(* The parser alone: parse_csv_message is called once on each line of a    *)
(* family of lines built field by field.                                   *)

\* at most this many fields in a line of fewer than four
MaxShort == 3

IdFields == {<<"S1">>, <<>>}
TimestampFields == {<<TS1>>, <<TS2>>, <<"yesterday">>, <<" ", TS1>>}
ValueFields ==
    {<<"100">>, <<"-3">>, <<"abc">>, <<"inf">>, <<"-inf">>, <<"nan">>, <<>>,
     <<" ", "100">>}
UnitFields == {<<"ADC">>}

RECURSIVE Join(_)
Join(fields) ==
    IF Len(fields) = 1 THEN fields[1]
    ELSE fields[1] \o <<",">> \o Join(Tail(fields))

\* lines of four fields
FourFieldLines ==
    { Join(<<i, t, v, u>>) :
        i \in IdFields, t \in TimestampFields, v \in ValueFields,
        u \in UnitFields }

\* lines of fewer than four fields, each empty or a numeral, and lines of
\* five fields: a line of four with one more
OtherLines ==
    UNION { { Join(f) : f \in [1..n -> {<<>>, <<"100">>}] } :
            n \in 1..MaxShort }
    \cup { l \o <<",", "x">> : l \in FourFieldLines }

\* every line bare, and wrapped in the white space a sender may add
ParseInputs ==
    { pre \o l \o post :
        pre \in {<<>>, <<" ">>}, post \in {<<>>, <<"\n">>},
        l \in FourFieldLines \cup OtherLines }

InitParse ==
    /\ ServerInit
    /\ timeouts = None
    /\ max_history = 0
    /\ gui = "none"
    /\ \E l \in ParseInputs : message = [w \in Threads |-> l]
    /\ parse_result = None
    /\ network = {}
    /\ quota = 0

\* the line the parser is called on
parse_line == message[1]

\* a call self.parse_csv_message(message) outside the receive loop
ParseCall ==
    /\ parse_result = None
    /\ LET outcome == parse_csv_message(parse_line)
       IN  /\ parse_result' = Some(outcome.result)
           /\ error_calls' =
                  IF outcome.reported
                  THEN Append(error_calls, "Erro ao fazer parse")
                  ELSE error_calls
    /\ UNCHANGED <<server_vars, thread_vars, data_calls, gui_vars, window_vars,
                   owner_vars, reader_vars, ghost_vars>>

NextParse == ParseCall

SpecParse == InitParse /\ [][NextParse]_vars

-----------------------------------------------------------------------------
(* Vocabulary of the properties *)

\* no receive loop is between the acceptance of a record and the end of
\* its update_stats
NoUpdateInProgress ==
    \A w \in Threads :
        pc[w] \notin {"bind", "current", "count", "append", "sum", "min",
                      "max", "threshold"}

\* the values of the accepted records, in arrival order
AcceptedValues == [i \in 1..Len(accepted) |-> accepted[i].value]

\* the last n entries of a sequence
LastN(seq, n) == SubSeq(seq, Len(seq) - n + 1, Len(seq))

\* m is the least (greatest) of the values: one of them, and in order with
\* each of them
IsMinimumOf(m, vals) ==
    /\ \E i \in DOMAIN vals : vals[i] = m
    /\ \A i \in DOMAIN vals : FLe(m, vals[i])
IsMaximumOf(m, vals) ==
    /\ \E i \in DOMAIN vals : vals[i] = m
    /\ \A i \in DOMAIN vals : FLe(vals[i], m)

\* the fields of a line, and the three ways a line fails to be a record
FieldsOf(line) == Split(Strip(line))
WrongFieldCount(line) == Len(FieldsOf(line)) # 4
NonNumericValue(line) ==
    Len(FieldsOf(line)) = 4 /\ FloatRaises(FieldsOf(line)[3])
InvalidTimestamp(line) ==
    /\ Len(FieldsOf(line)) = 4
    /\ ~FloatRaises(FieldsOf(line)[3])
    /\ FromIsoFormatRaises(FieldsOf(line)[2])
Malformed(line) ==
    WrongFieldCount(line) \/ NonNumericValue(line) \/ InvalidTimestamp(line)

-----------------------------------------------------------------------------
(* Properties *)

\* C1: in every reachable state the history holds at most max_history
\* entries, however many records have been accepted.
C1_HistoryBounded == Len(history) <= max_history

\* a full history that has already evicted an entry
C1_Witness ==
    /\ max_history > 0
    /\ Len(accepted) > max_history
    /\ NoUpdateInProgress
    /\ Len(history) = max_history

\* C2: once more than max_history records have been accepted and processed,
\* the history holds exactly max_history entries and get_history_data()
\* returns the last max_history accepted records, oldest first.
C2_HistoryIsLastRecords ==
    (NoUpdateInProgress /\ Len(accepted) > max_history) =>
        /\ Len(history) = max_history
        /\ get_history_data =
               [i \in 1..max_history |->
                    to_dict(LastN(accepted, max_history)[i])]

\* capacity 2 after three records of different values
C2_Witness ==
    /\ NoUpdateInProgress
    /\ max_history = 2
    /\ Len(accepted) = 3
    /\ accepted[1].value # accepted[2].value
    /\ accepted[2].value # accepted[3].value
    /\ accepted[1].value # accepted[3].value
    /\ Len(get_history_data) = 2

\* C3: after n >= 1 accepted values have been processed by update_stats,
\* total_readings is n and min_value is the minimum of the values.
C3_CountAndMinimum ==
    (NoUpdateInProgress /\ Len(accepted) >= 1) =>
        /\ total_readings = Len(accepted)
        /\ IsMinimumOf(min_value, AcceptedValues)

\* C4: after n >= 1 accepted values have been processed, max_value is the
\* maximum of the values, whatever their sign.  Stated for finite values.
C4_Maximum ==
    (/\ NoUpdateInProgress
     /\ Len(accepted) >= 1
     /\ \A i \in DOMAIN AcceptedValues : IsFinite(AcceptedValues[i])) =>
        IsMaximumOf(max_value, AcceptedValues)

\* C5: whenever total_readings > 0 and no update is in progress, every
\* accepted value v satisfies min_value <= v <= max_value.
C5_MinMaxEnclose ==
    (NoUpdateInProgress /\ total_readings > 0) =>
        \A i \in DOMAIN AcceptedValues :
            /\ FLe(min_value, AcceptedValues[i])
            /\ FLe(AcceptedValues[i], max_value)

\* C6: high_vibration_events is the number of accepted records whose value
\* was strictly greater than the alert threshold the operator had set
\* (on_threshold_changed) when the record was processed.
C6_EventsFollowThreshold ==
    NoUpdateInProgress => high_vibration_events = crossings

\* C7: a datagram that fails to parse (wrong field count, non-numeric value
\* or invalid time stamp) leaves the statistics, the history, current_data
\* and the source binding unchanged, and the loop goes on to the next
\* datagram.
C7_RefusedLineChangesNothing ==
    [][\A w \in Threads :
           (pc[w] = "parse" /\ Malformed(message[w]) /\ pc'[w] # pc[w]) =>
               (stats_vars' = stats_vars /\ pc'[w] = "while")]_vars

\* a line with an invalid time stamp has been refused after a record was
\* counted
C7_Witness ==
    /\ pc[1] = "while"
    /\ InvalidTimestamp(message[1])
    /\ parsed_data[1] = None
    /\ total_readings >= 1
    /\ Len(history) >= 1

\* C8: while the server is running, every datagram that fails to parse,
\* whichever the kind of failure, has the error callback invoked before
\* the loop moves on.
C8_RefusedLineIsReported ==
    [][\A w \in Threads :
           (pc[w] = "parse" /\ Malformed(message[w]) /\ running /\ running'
            /\ pc'[w] = "while") =>
               Len(error_calls') = Len(error_calls) + 1]_vars

\* C9: for a line whose field count is not 4, and for a line of 4 fields
\* whose value is not numeric, parse_csv_message returns None.
C9_RefusedLinesGiveNone ==
    (/\ parse_result # None
     /\ (WrongFieldCount(parse_line) \/ NonNumericValue(parse_line))) =>
        Get(parse_result) = None

\* a line of five fields whose first four would make a record
C9_Witness ==
    /\ parse_result = Some(None)
    /\ Len(FieldsOf(parse_line)) = 5
    /\ ~Malformed(Join(SubSeq(FieldsOf(parse_line), 1, 4)))

\* C10: for a line of 4 fields with a valid time stamp and a value that
\* float() converts, parse_csv_message returns a record exactly when the
\* value is finite.
C10_RecordIffFinite ==
    (/\ parse_result # None
     /\ Len(FieldsOf(parse_line)) = 4
     /\ ~FromIsoFormatRaises(FieldsOf(parse_line)[2])
     /\ ~FloatRaises(FieldsOf(parse_line)[3])) =>
        (Get(parse_result) # None <=> IsFinite(FloatOf(FieldsOf(parse_line)[3])))

-----------------------------------------------------------------------------
(* Vocabulary of the properties of start, stop and the loop *)

\* the step is a complete call of start() by the owner
StartStep == calls' = Append(calls, "start")

\* the step is one of the statements of stop()
StopStep == owner' # owner

\* the server is in its Stopped state
Stopped == ~running /\ \A w \in Threads : ~Alive(w)

AliveThreads == {w \in Threads : Alive(w)}

\* no thread holds a record between its acceptance and its notification
NoRecordInHand ==
    \A w \in Threads :
        pc[w] \notin {"bind", "current", "count", "append", "sum", "min",
                      "max", "threshold", "notify"}

\* the statistics after the first k accepted values, one update_stats after
\* the other
RECURSIVE SumOfFirst(_)
SumOfFirst(k) ==
    IF k = 0 THEN 0 ELSE FAdd(SumOfFirst(k - 1), accepted[k].value)
RECURSIVE MinOfFirst(_)
MinOfFirst(k) ==
    IF k = 0 THEN PosInf ELSE PyMin(MinOfFirst(k - 1), accepted[k].value)
RECURSIVE MaxOfFirst(_)
MaxOfFirst(k) ==
    IF k = 0 THEN 0 ELSE PyMax(MaxOfFirst(k - 1), accepted[k].value)
RECURSIVE EventsOfFirst(_)
EventsOfFirst(k) ==
    IF k = 0 THEN 0
    ELSE EventsOfFirst(k - 1)
             + (IF IsHighVibration(accepted[k].value) THEN 1 ELSE 0)

\* the snapshot s is that of exactly k processed records
SnapshotOf(s, k) ==
    /\ s.total_readings = k
    /\ s.avg_value = RoundedAverage(SumOfFirst(k), k)
    /\ s.min_value = MinOfFirst(k)
    /\ s.max_value = MaxOfFirst(k)
    /\ s.high_vibration_events = EventsOfFirst(k)

-----------------------------------------------------------------------------
(* Properties of start, stop and the loop *)

\* C11: when the bind fails in start(), start() returns False, the error is
\* reported once, running keeps its value (false on a stopped server), no
\* thread is created, the bind is not tried again, and a server that was
\* Stopped is Stopped afterwards.
C11_FailedBindLeavesStopped ==
    [][(StartStep /\ sock' # "bound") =>
           /\ returned' = Some(FALSE)
           /\ sock' = "unbound"
           /\ error_calls' = Append(error_calls, "Erro ao inicializar socket")
           /\ running' = running
           /\ thread' = thread
           /\ pc' = pc
           /\ (Stopped => Stopped')]_vars

\* a start() has failed on a server that was never started
C11_Witness ==
    /\ returned = Some(FALSE)
    /\ sock = "unbound"
    /\ thread = 0
    /\ ~running
    /\ error_calls = <<"Erro ao inicializar socket">>
    /\ calls = <<"start">>

\* C12: in every reachable state, for any sequence of start() and stop()
\* calls, at most one receive-loop thread is alive.
C12_AtMostOneWorker == Cardinality(AliveThreads) <= 1

\* C13: a get_stats() made from another thread at any moment returns a
\* snapshot whose total_readings, average, minimum, maximum and
\* high_vibration_events are those of one and the same number of processed
\* records.
C13_SnapshotIsConsistent ==
    stats_read # None =>
        \/ Get(stats_read) = EmptyDict
        \/ \E k \in 1..Len(accepted) : SnapshotOf(Get(stats_read), k)

\* C14: once stop() has returned, no datagram having been pending, no
\* receive-loop thread is running; and a start() that succeeds after it
\* leaves exactly one running.  Stated for runs in which the socket has
\* delivered nothing at all.
C14_NoWorkerAfterStop ==
    (owner = "idle" /\ delivered = 0 /\ calls # <<>>) =>
        /\ calls[Len(calls)] = "stop" => AliveThreads = {}
        /\ (/\ Len(calls) >= 2
            /\ calls[Len(calls) - 1] = "stop"
            /\ calls[Len(calls)] = "start"
            /\ returned = Some(TRUE)) => Cardinality(AliveThreads) = 1

\* C15: once stop() has set running to false and closed the socket, every
\* receive loop eventually exits; and a loop only ever ends by finding the
\* flag false at its while.
C15_LoopExitsAfterStop ==
    /\ (~running /\ sock = "closed") ~> (AliveThreads = {})
    /\ [][\A w \in Threads :
              (pc'[w] = "exited" /\ pc[w] # "exited") =>
                  (pc[w] = "while" /\ ~running)]_vars

\* stop() has cleared the flag and closed the socket under a thread that
\* is handling a datagram
C15_Witness ==
    /\ ~running
    /\ sock = "closed"
    /\ pc[1] = "notify"

\* C16: every statement of a stop() made on a server that is not running
\* (never started, or stopped before) leaves running false and the
\* statistics, history and source binding unchanged.
C16_StopWhenStoppedIsNoOp ==
    [][(StopStep /\ ~running) =>
           (~running' /\ stats_vars' = stats_vars)]_vars

\* a second stop() has returned on a server that holds a record
C16_Witness ==
    /\ calls = <<"start", "stop", "stop">>
    /\ owner = "idle"
    /\ ~running
    /\ sock = "closed"
    /\ returned = Some(TRUE)
    /\ thread = 1
    /\ pc[2] = "none"
    /\ total_readings = 1
    /\ Len(history) = 1

\* C17: the data callback is invoked once for each accepted record, in
\* order, after update_stats: its i-th invocation carries the i-th accepted
\* record and a snapshot whose total_readings is i; once no record is in
\* hand every accepted record has been notified.
C17_NotifiedOnceAfterUpdate ==
    /\ Len(data_calls) <= Len(accepted)
    /\ \A i \in 1..Len(data_calls) :
           /\ data_calls[i].data = accepted[i]
           /\ data_calls[i].stats # EmptyDict
           /\ data_calls[i].stats.total_readings = i
    /\ NoRecordInHand => Len(data_calls) = Len(accepted)

\* two records have been notified
C17_Witness ==
    /\ Len(data_calls) = 2
    /\ Len(accepted) = 2
    /\ data_calls[2].stats.total_readings = 2

\* C18: sensor_id and client_address are set by the first accepted record,
\* from its identifier and its sender, and never change afterwards.
C18_SourceBoundOnce ==
    [][/\ \A w \in Threads :
              (pc[w] = "bind" /\ pc'[w] # pc[w] /\ sensor_id = None) =>
                  /\ Len(accepted) = 1
                  /\ sensor_id' = Some(accepted[1].sensor_id)
                  /\ client_address' = Some(addr[w])
       /\ sensor_id # None =>
              (sensor_id' = sensor_id /\ client_address' = client_address)
      ]_vars

\* a record of another sensor, from another sender, has been processed
\* after the source was bound
C18_Witness ==
    /\ sensor_id = Some(<<"S1">>)
    /\ client_address = Some("10.0.0.7:4000")
    /\ Len(accepted) = 2
    /\ accepted[2].sensor_id = <<"S2">>
    /\ addr[1] = "10.0.0.8:4001"
    /\ pc[1] = "while"

\* C19: a transport error of the receive call that the handler meets with
\* running true is reported through the error callback; the loop goes on
\* to its next iteration and the statistics, history and source binding
\* are unchanged.
C19_TransportErrorReported ==
    [][\A w \in Threads :
           (pc[w] = "except" /\ exc[w] = "transport" /\ running
            /\ pc'[w] # pc[w]) =>
               /\ error_calls' =
                      Append(error_calls, ReceiveErrorMessage("transport"))
               /\ pc'[w] = "while"
               /\ stats_vars' = stats_vars]_vars

\* a transport error has been reported after a record was counted, and the
\* loop is receiving again
C19_Witness ==
    /\ total_readings = 1
    /\ error_calls = <<ReceiveErrorMessage("transport")>>
    /\ pc[1] = "recv"
    /\ running

\* C20: the receive error caused by stop() closing the socket is never
\* reported through the error callback.
C20_CloseErrorNotReported ==
    \A i \in 1..Len(error_calls) :
        error_calls[i] # ReceiveErrorMessage("closed")

\* the receive has failed on the socket that stop() closed
C20_Witness ==
    /\ pc[1] = "except"
    /\ exc[1] = "closed"
    /\ ~running
    /\ sock = "closed"

-----------------------------------------------------------------------------
(* Properties of the loop's failures *)

\* the handler of the thread w runs on an exception of the kind e
Handles(w, e) == pc[w] = "except" /\ exc[w] = e /\ pc'[w] # pc[w]

\* C21 as stated: every datagram whose bytes are not valid UTF-8 is
\* reported through the error callback and dropped, the statistics,
\* history and source binding unchanged, and the loop continues.
C21_DecodeErrorReported ==
    [][\A w \in Threads :
           Handles(w, "decode") =>
               /\ error_calls' =
                      Append(error_calls, ReceiveErrorMessage("decode"))
               /\ pc'[w] = "while"
               /\ stats_vars' = stats_vars]_vars

\* C21, amended: a datagram whose bytes are not valid UTF-8 is dropped
\* with the statistics, history and source binding unchanged and the loop
\* goes back to its test; it is reported through the error callback if
\* running is still true when the handler runs, and is not reported if
\* stop() has cleared the flag by then.
C21_DecodeErrorReportedWhileRunning ==
    [][\A w \in Threads :
           /\ (pc[w] = "recv" /\ pc'[w] = "except" /\ exc'[w] = "decode") =>
                  (stats_vars' = stats_vars /\ error_calls' = error_calls)
           /\ Handles(w, "decode") =>
                  /\ error_calls' =
                         IF running
                         THEN Append(error_calls,
                                     ReceiveErrorMessage("decode"))
                         ELSE error_calls
                  /\ pc'[w] = "while"
                  /\ stats_vars' = stats_vars]_vars

\* after a record was counted, bytes that are not UTF-8 have been reported
\* and the loop is receiving again
C21_Witness ==
    /\ total_readings = 1
    /\ error_calls = <<ReceiveErrorMessage("decode")>>
    /\ delivered = 2
    /\ pc[1] = "recv"
    /\ running

\* C22: while running is true no receive loop ends: whatever fails while a
\* datagram is handled (decoding, parsing, the transport, the data
\* callback, the error callback), a loop ends only with running false.
C22_LoopEndsOnlyWhenStopped ==
    [][\A w \in Threads :
           (pc'[w] = "exited" /\ pc[w] # "exited") => ~running]_vars

-----------------------------------------------------------------------------
(* Properties of the statistics across the life of the server *)

\* the keys of a snapshot that is not empty
StatsKeys ==
    {"total_readings", "min_value", "max_value", "avg_value",
     "high_vibration_events", "last_timestamp"}

\* C23: immediately after every successful start(), a start() that follows
\* an earlier run of the same server object included, the history is empty
\* and total_readings, sum_values and high_vibration_events are 0.
C23_StartBeginsEmpty ==
    [][(StartStep /\ returned' = Some(TRUE)) =>
           /\ history' = <<>>
           /\ total_readings' = 0
           /\ sum_values' = 0
           /\ high_vibration_events' = 0]_vars

C25_EmptySnapshotIffNoReadings ==
    /\ get_stats = EmptyDict <=> total_readings = 0
    /\ total_readings # 0 =>
           /\ DOMAIN get_stats = StatsKeys
           /\ get_stats.total_readings = total_readings

\* readings were counted by a server whose history keeps nothing
C25_Witness ==
    /\ max_history = 0
    /\ total_readings = 2
    /\ history = <<>>
    /\ NoUpdateInProgress

\* C30: parse_csv_message is pure: on every line, valid or not, it invokes
\* no callback and changes no server state.
C30_ParserIsPure ==
    [][parse_result' # parse_result =>
           /\ error_calls' = error_calls
           /\ data_calls' = data_calls
           /\ server_vars' = server_vars]_vars

-----------------------------------------------------------------------------
(* Properties of the read accessors and of the export *)

\* the last call the owner made before the one in hand
PreviousCall == IF Len(calls) >= 2 THEN calls[Len(calls) - 1] ELSE "none"

\* the step is a complete call of get_stats()
GetStatsStep == calls' = Append(calls, "get_stats")

\* the step ends a call of export_to_csv()
ExportEnds ==
    \/ calls' = Append(calls, "export_to_csv") /\ owner' = "idle"
    \/ owner = "export_iter" /\ owner' = "idle"

HeaderLine == <<"sensor_id", ",", "timestamp", ",", "value", ",", "unit">>

RowLine(data) ==
    data.sensor_id \o <<",">> \o data.timestamp \o <<",">>
        \o <<FloatStr(data.value)>> \o <<",">> \o data.unit

\* C26: a step of get_stats() or get_history_data() changes no server
\* state; a call that follows a call of the same accessor, no statement of
\* the loop having touched the statistics or history in between, returns
\* an equal result; and the list get_history_data() returned changes only
\* when the owner calls it again.
C26_ReadsAreIdempotent ==
    [][/\ GetStatsStep =>
              /\ server_vars' = server_vars
              /\ (calls # <<>> /\ calls[Len(calls)] = "get_stats"
                  /\ read_at = Mutations) => stats_read' = stats_read
       /\ (owner' # owner /\ "history_iter" \in {owner, owner'}) =>
              /\ server_vars' = server_vars
              /\ (owner = "history_iter" /\ raised' = "none"
                  /\ PreviousCall = "get_history_data" /\ hist_read # None
                  /\ read_at = Mutations) => hist_read' = hist_read
       /\ hist_read' # hist_read => owner = "history_iter"]_vars

\* a record was pushed after the list was returned, and the list is the
\* one returned; get_stats() was then called
C26_Witness ==
    /\ calls = <<"start", "get_history_data", "get_stats">>
    /\ hist_read = Some(<<>>)
    /\ Len(history) >= 1
    /\ stats_read # None
    /\ Get(stats_read) # EmptyDict

\* C27: in a snapshot taken after n >= 1 accepted values avg_value is the
\* sum of all n values divided by n and rounded to 2 decimals (in
\* hundredths here), whatever the history still holds; 100, 6000, 200 give
\* minimum 100, maximum 6000 and average 2100.00.
C27_AverageOfAllValues ==
    /\ \A i \in 1..Len(data_calls) :
           data_calls[i].stats.avg_value = RoundedAverage(SumOfFirst(i), i)
    /\ (NoUpdateInProgress /\ accepted # <<>>) =>
           get_stats.avg_value =
               RoundedAverage(SumOfFirst(Len(accepted)), Len(accepted))
    /\ (NoUpdateInProgress /\ Len(accepted) = 3
        /\ accepted[1].value = 100 /\ accepted[2].value = 6000
        /\ accepted[3].value = 200) =>
           /\ get_stats.min_value = 100
           /\ get_stats.max_value = 6000
           /\ get_stats.avg_value = 210000

\* 100, 6000 and 200 were processed by a server whose history holds two
C27_Witness ==
    /\ NoUpdateInProgress
    /\ Len(accepted) = 3
    /\ accepted[1].value = 100
    /\ accepted[2].value = 6000
    /\ accepted[3].value = 200
    /\ Len(history) = 2
    /\ Len(data_calls) = 3
    /\ data_calls[3].stats.avg_value = 210000

\* C28: an export_to_csv that ends with True while no thread is handling
\* a datagram has written exactly n + 1 lines for a history of n records:
\* the header,
\* then one row per record, oldest first, with the four fields of the
\* record; and it leaves the history and statistics unchanged.
C28_ExportWritesHeaderAndRows ==
    [][(ExportEnds /\ returned' = Some(TRUE)
        /\ \A w \in Threads : ~Handling(w)) =>
           /\ file' # None
           /\ Len(Lines(Get(file'))) = Len(history) + 1
           /\ Lines(Get(file'))[1] = HeaderLine
           /\ \A i \in 1..Len(history) :
                  Lines(Get(file'))[i + 1] = RowLine(history[i])
           /\ stats_vars' = stats_vars]_vars

\* C29: an export_to_csv that fails, by an I/O error or because the deque
\* was appended to under it, returns False, reports the failure through
\* the error callback once, lets no exception reach its caller, and leaves
\* the statistics, history and source binding unchanged.
C29_FailedExportIsReported ==
    [][ExportEnds =>
           /\ raised' = "none"
           /\ returned' \in {Some(TRUE), Some(FALSE)}
           /\ returned' = Some(TRUE) => error_calls' = error_calls
           /\ returned' = Some(FALSE) =>
                  \E e \in {"open", "write", "mutated"} :
                      error_calls' =
                          Append(error_calls, ExportErrorMessage(e))
           /\ (owner = "export_iter" /\ DequeState # iter_state) =>
                  returned' = Some(FALSE)
           /\ stats_vars' = stats_vars]_vars

\* an export has failed because a record was appended while it ran
C29_Witness ==
    /\ calls = <<"start", "export_to_csv">>
    /\ owner = "idle"
    /\ returned = Some(FALSE)
    /\ error_calls = <<ExportErrorMessage("mutated")>>
    /\ raised = "none"
    /\ total_readings >= 1

-----------------------------------------------------------------------------
(* Properties of the loop between datagrams *)

\* the smaller of two naturals
Min(a, b) == IF a < b THEN a ELSE b

\* every receive loop is between datagrams
BetweenDatagrams == \A w \in Threads : ~Handling(w)

\* C32: a valid record is processed whatever its sensor identifier and
\* sender: once no record is in hand every accepted record, in order, has
\* been counted, pushed to the history and handed to the data callback.
C32_OtherSourcesAccepted ==
    /\ NoRecordInHand =>
           /\ total_readings = Len(accepted)
           /\ Len(data_calls) = Len(accepted)
           /\ history =
                  LastN(accepted, Min(Len(accepted), max_history))
    /\ \A i \in 1..Len(data_calls) : data_calls[i].data = accepted[i]

\* a record of sensor S2 sent from another address was counted, pushed and
\* notified after the source S1 was bound
C32_Witness ==
    /\ NoRecordInHand
    /\ sensor_id = Some(<<"S1">>)
    /\ client_address = Some("10.0.0.7:4000")
    /\ total_readings = 2
    /\ Len(history) = 2
    /\ history[2].sensor_id = <<"S2">>
    /\ addr[1] = "10.0.0.8:4001"
    /\ Len(data_calls) = 2
    /\ data_calls[2].data.sensor_id = <<"S2">>

\* C34: whenever the receive loop is between datagrams and max_history is
\* at least 1, the history holds min(total_readings, max_history) entries.
C34_HistoryLength ==
    (BetweenDatagrams /\ max_history >= 1) =>
        Len(history) = Min(total_readings, max_history)

\* three records were counted by a server whose history holds two
C34_Witness ==
    /\ BetweenDatagrams
    /\ max_history = 2
    /\ total_readings = 3
    /\ Len(history) = 2

\* C35: whenever the receive loop is between datagrams, sensor_id is None
\* if and only if total_readings is 0.
C35_BoundIffCounted ==
    BetweenDatagrams => (sensor_id = None <=> total_readings = 0)

\* the first record has bound the source and made the count 1
C35_Witness ==
    /\ BetweenDatagrams
    /\ sensor_id = Some(<<"S1">>)
    /\ total_readings = 1
    /\ pc[1] = "recv"

\* C36: each invocation of the data callback carries a snapshot whose
\* last_timestamp is the time stamp of the record handed over with it, and
\* when max_history is at least 1 that record is the newest entry of the
\* history at the time of the call.
C36_SnapshotIsOfTheRecord ==
    [][\A w \in Threads :
           (pc[w] = "notify" /\ pc'[w] # pc[w]) =>
               /\ data_calls' # data_calls
               /\ LET call == data_calls'[Len(data_calls')]
                  IN  /\ call.data = Get(parsed_data[w])
                      /\ call.stats # EmptyDict
                      /\ call.stats.last_timestamp =
                             Some(call.data.timestamp)
                      /\ max_history >= 1 =>
                             /\ history # <<>>
                             /\ history[Len(history)] = call.data]_vars

\* two records with different time stamps were notified, the second with
\* its own
C36_Witness ==
    /\ Len(data_calls) = 2
    /\ data_calls[1].data.timestamp = <<TS1>>
    /\ data_calls[2].data.timestamp = <<TS2>>
    /\ data_calls[2].stats.last_timestamp = Some(<<TS2>>)
    /\ max_history = 2
    /\ history[2] = data_calls[2].data

\* C37: when the data callback raises, the statistics, history,
\* current_data and source binding keep the update of the record; the
\* handler, met with running true, reports the failure through the error
\* callback and the loop goes on to its next iteration.
C37_DataCallbackFailureContained ==
    [][\A w \in Threads :
           /\ (pc[w] = "notify" /\ pc'[w] = "except") =>
                  stats_vars' = stats_vars
           /\ (Handles(w, "on_data") /\ running) =>
                  /\ error_calls' =
                         Append(error_calls, ReceiveErrorMessage("on_data"))
                  /\ pc'[w] = "while"
                  /\ stats_vars' = stats_vars]_vars

-----------------------------------------------------------------------------
(* Properties of the timeout and of the window *)

\* the step ends a receive of thread w that got no datagram and no error
TimesOut(w) ==
    /\ pc[w] = "recv"
    /\ pc'[w] # pc[w]
    /\ delivered' = delivered
    /\ sock # "unbound"
    /\ timeouts' # timeouts

\* C31: a receive that times out invokes neither callback and changes no
\* server state, and the loop goes back to the test of running.
C31_TimeoutIsNotAnError ==
    [][\A w \in Threads :
           TimesOut(w) =>
               /\ pc'[w] = "while"
               /\ exc'[w] = "none"
               /\ callback_vars' = callback_vars
               /\ server_vars' = server_vars
               /\ queue' = queue]_vars

\* the loop is receiving again after a timeout that followed a record, and
\* nothing was reported
C31_Witness ==
    /\ timeouts = Some(1)
    /\ total_readings = 1
    /\ Len(data_calls) = 1
    /\ error_calls = <<>>
    /\ running
    /\ pc[1] = "recv"

\* the events the data callback has emitted, as the signal carries them
Emitted ==
    [i \in 1..Len(data_calls) |->
         on_server_data(data_calls[i].data, data_calls[i].stats)]

\* the step is a call of the slot on_data_received
SlotStep == handled' = handled + 1

\* the loop has ended and the window is closed
Quiescent ==
    /\ gui = "closed"
    /\ owner = "idle"
    /\ \A w \in Threads : ~Alive(w)

\* the data callback is invoked in arrival order, and the slot is called
\* with the events in the order of their emission, each once, none skipped
InOrder ==
    /\ \A i \in 1..Len(data_calls) : data_calls[i].data = accepted[i]
    /\ handled <= Len(Emitted)
    /\ queue = SubSeq(Emitted, handled + 1, Len(Emitted))

C38_GraphListsFollowEvents ==
    /\ [](/\ Len(history_values) = Len(history_timestamps)
          /\ Len(history_values) <= max_graph_points)
    /\ [][/\ SlotStep =>
                 /\ history_values' =
                        Keep(history_values, Head(queue).data.value)
                 /\ history_timestamps' =
                        Keep(history_timestamps, now_brasilia)
          /\ (~SlotStep /\ history_values' # history_values) =>
                 /\ history_values' = <<>>
                 /\ history_timestamps' = <<>>
                 /\ server_vars' = server_vars]_vars

====
